---- MODULE Spec2Model ----
(***************************************************************************)
(* A model of toy_ch2.cpp: the Kaleidoscope tokenizer (gettok), the        *)
(* recursive-descent / precedence-climbing parser and the driver loop.     *)
(* Characters are their ASCII codes, as in the C source, so a symbol token *)
(* is the code of its character and the named tokens are negative.         *)
(***************************************************************************)
EXTENDS Integers, Sequences, FiniteSets, TLC

VARIABLES
    input,            \* the contents of standard input (a sequence of chars)
    pos,              \* number of getchar() calls made so far
    LastChar,         \* gettok's static lookahead character
    IdentifierStr,    \* filled in if tok_identifier
    NumVal,           \* filled in if tok_number
    CurTok,           \* the parser's current token
    BinopPrecedence,  \* std::map<char,int>
    pc,               \* where the program is: "start", "loop", "done", "lex"
    out,              \* what the last MainLoop iteration returned and printed
    twin              \* a second tokenizer, run on the commented input

vars == <<input, pos, LastChar, IdentifierStr, NumVal, CurTok,
          BinopPrecedence, pc, out, twin>>

-----------------------------------------------------------------------------
(* Bounds of the model *)

MaxOps == 3       \* operators in a generated operator chain
MaxWords == 3     \* words in a generated free-form input
MaxTail == 4      \* words after a generated prototype head
MaxLexLen == 3    \* characters in a generated tokenizer input

-----------------------------------------------------------------------------
(* enum Token and the end-of-file value of <cstdio> *)

EOF == -1
tok_eof == -1
tok_def == -2
tok_extern == -3
tok_identifier == -4
tok_number == -5

(* <cctype> in the "C" locale *)
isspace(c) == c \in {9, 10, 11, 12, 13, 32}
isalpha(c) == c \in (65..90) \cup (97..122)
isdigit(c) == c \in 48..57
isalnum(c) == isalpha(c) \/ isdigit(c)
isascii(c) == c \in 0..127

-----------------------------------------------------------------------------
(* strtod on a string of digits and dots.  The value is kept exactly, as   *)
(* the pair m, e standing for m / 10^e with no trailing zero in m.         *)

RECURSIVE DigitRun(_)
DigitRun(s) ==
    IF s # <<>> /\ isdigit(Head(s)) THEN <<Head(s)>> \o DigitRun(Tail(s))
    ELSE <<>>

RECURSIVE DigitsValue(_)
DigitsValue(s) ==
    IF s = <<>> THEN 0
    ELSE 10 * DigitsValue(SubSeq(s, 1, Len(s) - 1)) + (s[Len(s)] - 48)

RECURSIVE Normalize(_, _)
Normalize(m, e) ==
    IF e > 0 /\ m % 10 = 0 THEN Normalize(m \div 10, e - 1)
    ELSE [m |-> m, e |-> e]

strtod(NumStr) ==
    LET ip   == DigitRun(NumStr)
        rest == SubSeq(NumStr, Len(ip) + 1, Len(NumStr))
        fp   == IF rest # <<>> /\ Head(rest) = 46 THEN DigitRun(Tail(rest))
                ELSE <<>>
    IN  IF ip = <<>> /\ fp = <<>> THEN [m |-> 0, e |-> 0]
        ELSE Normalize(DigitsValue(ip \o fp), Len(fp))

-----------------------------------------------------------------------------
(* The tokenizer.  A machine state M is a record holding at least          *)
(* in, pos, LastChar, IdentifierStr, NumVal.                               *)

\* LastChar = getchar();
getchar(M) ==
    [M EXCEPT !.pos = @ + 1,
              !.LastChar = IF M.pos < Len(M.in) THEN M.in[M.pos + 1] ELSE EOF]

\* Then(v, K) is K applied to the value of v, v being evaluated once and
\* before K: "auto v = ...; K" of the source.
Then(v, K(_)) == CHOOSE r \in {K(x) : x \in {v}} : TRUE

\* while (isspace(LastChar)) LastChar = getchar();
RECURSIVE SkipSpace(_)
SkipSpace(M) == IF isspace(M.LastChar) THEN SkipSpace(getchar(M)) ELSE M

\* while (isalnum((LastChar = getchar()))) IdentifierStr += LastChar;
RECURSIVE ReadIdentifier(_)
ReadIdentifier(M) ==
    Then(getchar(M), LAMBDA n :
        IF isalnum(n.LastChar)
        THEN ReadIdentifier([n EXCEPT !.IdentifierStr = Append(@, n.LastChar)])
        ELSE n)

\* do { NumStr += LastChar; LastChar = getchar(); } while (digit or '.');
RECURSIVE ReadNumber(_, _)
ReadNumber(M, NumStr) ==
    Then(getchar(M), LAMBDA n :
        IF isdigit(n.LastChar) \/ n.LastChar = 46
        THEN ReadNumber(n, Append(NumStr, M.LastChar))
        ELSE [st |-> n, NumStr |-> Append(NumStr, M.LastChar)])

\* SkipComment that ends a comment at '\n' and at the end of file only
RECURSIVE SkipComment_NoCR(_)
SkipComment_NoCR(M) ==
    Then(getchar(M), LAMBDA n :
        IF n.LastChar # EOF /\ n.LastChar # 10
        THEN SkipComment_NoCR(n)
        ELSE n)

\* do LastChar = getchar(); while (LastChar != EOF && != '\n' && != '\r');
RECURSIVE SkipComment(_)
SkipComment(M) ==
    Then(getchar(M), LAMBDA n :
        IF n.LastChar # EOF /\ n.LastChar # 10 /\ n.LastChar # 13
        THEN SkipComment(n)
        ELSE n)

KwDef == <<100, 101, 102>>
KwExtern == <<101, 120, 116, 101, 114, 110>>

\* The token an identifier's text stands for
IdentifierToken(str) ==
    IF str = KwDef THEN tok_def
    ELSE IF str = KwExtern THEN tok_extern
    ELSE tok_identifier

RECURSIVE gettok(_)

\* gettokSymbol without "if (LastChar == EOF) return tok_eof": the end of
\* file is returned as a character, and eaten.
gettokSymbol_EatsEof(M) ==
    Then(IF M.LastChar = 35 THEN SkipComment(M) ELSE M, LAMBDA c :
        IF M.LastChar = 35 /\ c.LastChar # EOF THEN gettok(c)
        ELSE [tok |-> c.LastChar, st |-> getchar(c)])

\* The tail of gettok, from "if (LastChar == '#')" on: M is the state after
\* the whitespace is skipped, c the state after the comment, if any.
gettokSymbol(M) ==
    Then(IF M.LastChar = 35 THEN SkipComment(M) ELSE M, LAMBDA c :
        IF M.LastChar = 35 /\ c.LastChar # EOF THEN gettok(c)
        ELSE IF c.LastChar = EOF THEN [tok |-> tok_eof, st |-> c]
        ELSE [tok |-> c.LastChar, st |-> getchar(c)])

gettok(M) ==
    Then(SkipSpace(M), LAMBDA a :
        IF isalpha(a.LastChar)
        THEN Then(ReadIdentifier([a EXCEPT !.IdentifierStr = <<a.LastChar>>]),
                  LAMBDA b : [tok |-> IdentifierToken(b.IdentifierStr), st |-> b])
        ELSE IF isdigit(a.LastChar) \/ a.LastChar = 46
        THEN Then(ReadNumber(a, <<>>), LAMBDA r :
                  [tok |-> tok_number,
                   st |-> [r.st EXCEPT !.NumVal = strtod(r.NumStr)]])
        ELSE gettokSymbol(a))

\* static int getNextToken() { return CurTok = gettok(); }
getNextToken(M) ==
    Then(gettok(M), LAMBDA r : [r.st EXCEPT !.CurTok = r.tok])

-----------------------------------------------------------------------------
(* The AST.  A null unique_ptr is the node nullptr.                        *)

nullptr == [t |-> "nullptr"]
IsNull(n) == n.t = "nullptr"
NumberExprAST(Val) == [t |-> "Number", Val |-> Val]
VariableExprAST(Name) == [t |-> "Variable", Name |-> Name]
BinaryExprAST(Op, LHS, RHS) == [t |-> "Binary", Op |-> Op, LHS |-> LHS, RHS |-> RHS]
CallExprAST(Callee, Args) == [t |-> "Call", Callee |-> Callee, Args |-> Args]
PrototypeAST(Name, Args) == [t |-> "Prototype", Name |-> Name, Args |-> Args]
FunctionAST(Proto, Body) == [t |-> "Function", Proto |-> Proto, Body |-> Body]

\* "__anon_expr"
AnonExpr == <<95, 95, 97, 110, 111, 110, 95, 101, 120, 112, 114>>

-----------------------------------------------------------------------------
(* The parser.  Every parse function takes the machine state and returns   *)
(* [node, st]: the node it returns and the machine state it leaves.        *)

\* main's four assignments to BinopPrecedence
MainTable == (60 :> 10) @@ (43 :> 20) @@ (45 :> 20) @@ (42 :> 40)

\* BinopPrecedence[c] is std::map::operator[]: a key that is absent is
\* inserted with the value 0.
MapSubscript(T, c) == IF c \in DOMAIN T THEN T ELSE T @@ (c :> 0)

GetTokPrecedence(M) ==
    IF ~isascii(M.CurTok) THEN [prec |-> -1, st |-> M]
    ELSE Then(MapSubscript(M.BinopPrecedence, M.CurTok), LAMBDA T :
             [prec |-> IF T[M.CurTok] <= 0 THEN -1 ELSE T[M.CurTok],
              st |-> [M EXCEPT !.BinopPrecedence = T]])

\* fprintf(stderr, "Error: %s\n", Str); return nullptr;
\* A line of errs keeps, with the message, the token that was current and
\* the input position when it was printed.
LogError(M, Str) ==
    [node |-> nullptr,
     st |-> [M EXCEPT !.errs = Append(@, [msg |-> Str, tok |-> M.CurTok,
                                           pos |-> M.pos])]]

LogErrorP(M, Str) == LogError(M, Str)

RECURSIVE ParseExpression(_)
RECURSIVE ParseBinOpRHS(_, _, _)
RECURSIVE ParseArgs(_, _)

ParseNumberExpr(M) ==
    [node |-> NumberExprAST(M.NumVal), st |-> getNextToken(M)]

\* ParseParenExpr that steps over the token it found instead of ')'
ParseParenExpr_Skips(M) ==
    Then(ParseExpression(getNextToken(M)), LAMBDA V :
        IF IsNull(V.node) THEN V
        ELSE IF V.st.CurTok # 41
        THEN [node |-> nullptr,
              st |-> getNextToken(LogError(V.st, "expected ')'").st)]
        ELSE [node |-> V.node, st |-> getNextToken(V.st)])

ParseParenExpr(M) ==
    Then(ParseExpression(getNextToken(M)), LAMBDA V :
        IF IsNull(V.node) THEN V
        ELSE IF V.st.CurTok # 41 THEN LogError(V.st, "expected ')'")
        ELSE [node |-> V.node, st |-> getNextToken(V.st)])

\* ParseArgs that reports the argument-list error when an argument does
\* not parse, where the source returns nullptr silently.
ParseArgs_Reports(M, Args) ==
    Then(ParseExpression(M), LAMBDA Arg :
        IF IsNull(Arg.node)
        THEN [ok |-> FALSE, Args |-> Args,
              st |-> LogError(Arg.st, "Expected ')' or ',' in argument list").st]
        ELSE IF Arg.st.CurTok = 41
        THEN [ok |-> TRUE, Args |-> Append(Args, Arg.node), st |-> Arg.st]
        ELSE IF Arg.st.CurTok # 44
        THEN [ok |-> FALSE, Args |-> Append(Args, Arg.node),
              st |-> LogError(Arg.st, "Expected ')' or ',' in argument list").st]
        ELSE ParseArgs(getNextToken(Arg.st), Append(Args, Arg.node)))

\* The while (true) loop of ParseIdentifierExpr: [ok, Args, st].
ParseArgs(M, Args) ==
    Then(ParseExpression(M), LAMBDA Arg :
        IF IsNull(Arg.node) THEN [ok |-> FALSE, Args |-> Args, st |-> Arg.st]
        ELSE IF Arg.st.CurTok = 41
        THEN [ok |-> TRUE, Args |-> Append(Args, Arg.node), st |-> Arg.st]
        ELSE IF Arg.st.CurTok # 44
        THEN [ok |-> FALSE, Args |-> Append(Args, Arg.node),
              st |-> LogError(Arg.st, "Expected ')' or ',' in argument list").st]
        ELSE ParseArgs(getNextToken(Arg.st), Append(Args, Arg.node)))

ParseIdentifierExpr(M) ==
    Then(getNextToken(M), LAMBDA a :
        IF a.CurTok # 40
        THEN [node |-> VariableExprAST(M.IdentifierStr), st |-> a]
        ELSE Then(getNextToken(a), LAMBDA b :
            IF b.CurTok # 41
            THEN Then(ParseArgs(b, <<>>), LAMBDA r :
                     IF r.ok
                     THEN [node |-> CallExprAST(M.IdentifierStr, r.Args),
                           st |-> getNextToken(r.st)]
                     ELSE [node |-> nullptr, st |-> r.st])
            ELSE [node |-> CallExprAST(M.IdentifierStr, <<>>),
                  st |-> getNextToken(b)]))

ParsePrimary(M) ==
    IF M.CurTok = tok_identifier THEN ParseIdentifierExpr(M)
    ELSE IF M.CurTok = tok_number THEN ParseNumberExpr(M)
    ELSE IF M.CurTok = 40 THEN ParseParenExpr(M)
    ELSE LogError(M, "unknown token when expecting an expression")

\* ParseBinOpRHS with "TokPrec <= NextPrec" for "TokPrec < NextPrec": the
\* next operator of equal precedence takes the right operand first.
ParseBinOpRHS_RightAssoc(ExprPrec, LHS, M) ==
    Then(GetTokPrecedence(M), LAMBDA g :
        IF g.prec < ExprPrec THEN [node |-> LHS, st |-> g.st]
        ELSE Then(ParsePrimary(getNextToken(g.st)), LAMBDA RHS :
            IF IsNull(RHS.node) THEN RHS
            ELSE Then(GetTokPrecedence(RHS.st), LAMBDA n :
                Then(IF g.prec <= n.prec
                     THEN ParseBinOpRHS(g.prec, RHS.node, n.st)
                     ELSE [node |-> RHS.node, st |-> n.st], LAMBDA R2 :
                    IF IsNull(R2.node) THEN R2
                    ELSE ParseBinOpRHS(ExprPrec,
                             BinaryExprAST(M.CurTok, LHS, R2.node), R2.st)))))

\* ParseBinOpRHS without the look at the next operator: every operator
\* takes just the primary to its right.
ParseBinOpRHS_NoClimb(ExprPrec, LHS, M) ==
    Then(GetTokPrecedence(M), LAMBDA g :
        IF g.prec < ExprPrec THEN [node |-> LHS, st |-> g.st]
        ELSE Then(ParsePrimary(getNextToken(g.st)), LAMBDA RHS :
            IF IsNull(RHS.node) THEN RHS
            ELSE ParseBinOpRHS(ExprPrec,
                     BinaryExprAST(M.CurTok, LHS, RHS.node), RHS.st)))

\* g is GetTokPrecedence() at the top of the loop, n the one after the
\* primary; BinOp is the token that was current at the top of the loop.
ParseBinOpRHS(ExprPrec, LHS, M) ==
    Then(GetTokPrecedence(M), LAMBDA g :
        IF g.prec < ExprPrec THEN [node |-> LHS, st |-> g.st]
        ELSE Then(ParsePrimary(getNextToken(g.st)), LAMBDA RHS :
            IF IsNull(RHS.node) THEN RHS
            ELSE Then(GetTokPrecedence(RHS.st), LAMBDA n :
                Then(IF g.prec < n.prec
                     THEN ParseBinOpRHS(g.prec + 1, RHS.node, n.st)
                     ELSE [node |-> RHS.node, st |-> n.st], LAMBDA R2 :
                    IF IsNull(R2.node) THEN R2
                    ELSE ParseBinOpRHS(ExprPrec,
                             BinaryExprAST(M.CurTok, LHS, R2.node), R2.st)))))

ParseExpression(M) ==
    Then(ParsePrimary(M), LAMBDA LHS :
        IF IsNull(LHS.node) THEN LHS
        ELSE ParseBinOpRHS(0, LHS.node, LHS.st))

\* while (getNextToken() == tok_identifier) ArgNames.push_back(IdentifierStr);
RECURSIVE ReadArgNames(_, _)
ReadArgNames(M, ArgNames) ==
    Then(getNextToken(M), LAMBDA n :
        IF n.CurTok = tok_identifier
        THEN ReadArgNames(n, Append(ArgNames, n.IdentifierStr))
        ELSE [st |-> n, ArgNames |-> ArgNames])

ParsePrototype(M) ==
    IF M.CurTok # tok_identifier
    THEN LogErrorP(M, "Expected function name in prototype")
    ELSE Then(getNextToken(M), LAMBDA a :
        IF a.CurTok # 40 THEN LogErrorP(a, "Expected '(' in prototype")
        ELSE Then(ReadArgNames(a, <<>>), LAMBDA r :
            IF r.st.CurTok # 41
            THEN LogErrorP(r.st, "Expected ')' in prototype")
            ELSE [node |-> PrototypeAST(M.IdentifierStr, r.ArgNames),
                  st |-> getNextToken(r.st)]))

\* ParseDefinition that parses the body before it looks at the prototype
ParseDefinition_BodyAnyway(M) ==
    Then(ParsePrototype(getNextToken(M)), LAMBDA Proto :
        Then(ParseExpression(Proto.st), LAMBDA E :
            IF ~IsNull(Proto.node) /\ ~IsNull(E.node)
            THEN [node |-> FunctionAST(Proto.node, E.node), st |-> E.st]
            ELSE [node |-> nullptr, st |-> E.st]))

ParseDefinition(M) ==
    Then(ParsePrototype(getNextToken(M)), LAMBDA Proto :
        IF IsNull(Proto.node) THEN Proto
        ELSE Then(ParseExpression(Proto.st), LAMBDA E :
            IF ~IsNull(E.node)
            THEN [node |-> FunctionAST(Proto.node, E.node), st |-> E.st]
            ELSE [node |-> nullptr, st |-> E.st]))

ParseTopLevelExpr(M) ==
    Then(ParseExpression(M), LAMBDA E :
        IF ~IsNull(E.node)
        THEN [node |-> FunctionAST(PrototypeAST(AnonExpr, <<>>), E.node),
              st |-> E.st]
        ELSE [node |-> nullptr, st |-> E.st])

ParseExtern(M) == ParsePrototype(getNextToken(M))

-----------------------------------------------------------------------------
(* Top-level parsing.  A handler returns [ret, st, says]: what its parse   *)
(* function returned, the machine state the handler leaves, and the status *)
(* line it printed ("" when the parse failed).                             *)

\* HandleDefinition whose recovery skips two tokens
HandleDefinition_SkipsTwo(M) ==
    Then(ParseDefinition(M), LAMBDA r :
        IF ~IsNull(r.node)
        THEN [ret |-> r, st |-> r.st, says |-> "Parsed a function definition."]
        ELSE [ret |-> r, st |-> getNextToken(getNextToken(r.st)), says |-> ""])

HandleDefinition(M) ==
    Then(ParseDefinition(M), LAMBDA r :
        IF ~IsNull(r.node)
        THEN [ret |-> r, st |-> r.st, says |-> "Parsed a function definition."]
        ELSE [ret |-> r, st |-> getNextToken(r.st), says |-> ""])

HandleExtern(M) ==
    Then(ParseExtern(M), LAMBDA r :
        IF ~IsNull(r.node)
        THEN [ret |-> r, st |-> r.st, says |-> "Parsed an extern"]
        ELSE [ret |-> r, st |-> getNextToken(r.st), says |-> ""])

\* HandleTopLevelExpression without the recovery step
HandleTopLevelExpression_NoRecovery(M) ==
    Then(ParseTopLevelExpr(M), LAMBDA r :
        IF ~IsNull(r.node)
        THEN [ret |-> r, st |-> r.st, says |-> "Parsed a top-level expr"]
        ELSE [ret |-> r, st |-> r.st, says |-> ""])

HandleTopLevelExpression(M) ==
    Then(ParseTopLevelExpr(M), LAMBDA r :
        IF ~IsNull(r.node)
        THEN [ret |-> r, st |-> r.st, says |-> "Parsed a top-level expr"]
        ELSE [ret |-> r, st |-> getNextToken(r.st), says |-> ""])

-----------------------------------------------------------------------------
(* The program's state as one record, and back *)

State ==
    [in |-> input, pos |-> pos, LastChar |-> LastChar,
     IdentifierStr |-> IdentifierStr, NumVal |-> NumVal, CurTok |-> CurTok,
     BinopPrecedence |-> BinopPrecedence, errs |-> <<>>]

Store(M) ==
    /\ pos' = M.pos
    /\ LastChar' = M.LastChar
    /\ IdentifierStr' = M.IdentifierStr
    /\ NumVal' = M.NumVal
    /\ CurTok' = M.CurTok
    /\ BinopPrecedence' = M.BinopPrecedence
    /\ UNCHANGED input

\* The statics before main runs: LastChar = ' ', the rest zero-initialised.
StartOn(inp) ==
    [in |-> inp, pos |-> 0, LastChar |-> 32, IdentifierStr |-> <<>>,
     NumVal |-> [m |-> 0, e |-> 0], CurTok |-> 0]

NoOut == [kind |-> "none"]
NoTwin == StartOn(<<>>)

-----------------------------------------------------------------------------
(* Driver inputs: operator chains over one-character primaries, free       *)
(* concatenations of words, and a prototype head followed by words.        *)

SeqsUpTo(S, n) == UNION {[1..k -> S] : k \in 0..n}

Atoms == {49, 97}
Ops == {60, 43, 45, 42}

RECURSIVE Chains(_)
Chains(n) ==
    IF n = 0 THEN {<<a>> : a \in Atoms}
    ELSE {c \o <<o, a>> : c \in Chains(n - 1), o \in Ops, a \in Atoms}

Keywords == {<<100, 101, 102, 32>>, <<101, 120, 116, 101, 114, 110, 32>>}
Symbols == {<<97>>, <<49>>, <<40>>, <<41>>, <<44>>, <<43>>, <<59>>}
Heads == {k \o <<97, 40>> : k \in Keywords}

RECURSIVE Concat(_)
Concat(ws) == IF ws = <<>> THEN <<>> ELSE Head(ws) \o Concat(Tail(ws))

Texts(W, n) == {Concat(ws) : ws \in SeqsUpTo(W, n)}

\* The inputs the usage comment and the specification name
Examples == {
    \* 1+2+3
    <<49, 43, 50, 43, 51>>,
    \* 1+2*3
    <<49, 43, 50, 42, 51>>,
    \* 1*2+3
    <<49, 42, 50, 43, 51>>,
    \* foo(1,
    <<102, 111, 111, 40, 49, 44>>,
    \* (1+2
    <<40, 49, 43, 50>>,
    \* foo(1, x, y+1)
    <<102, 111, 111, 40, 49, 44, 32, 120, 44, 32, 121, 43, 49, 41>>,
    \* (1+2)*3
    <<40, 49, 43, 50, 41, 42, 51>>,
    \* def foo(x y) x+ foo(y, 4.0);
    <<100, 101, 102, 32, 102, 111, 111, 40, 120, 32, 121, 41, 32, 120,
      43, 32, 102, 111, 111, 40, 121, 44, 32, 52, 46, 48, 41, 59>>,
    \* def foo(x y) x+ y y;
    <<100, 101, 102, 32, 102, 111, 111, 40, 120, 32, 121, 41, 32, 120,
      43, 32, 121, 32, 121, 59>>,
    \* def foo(x y) x+y );
    <<100, 101, 102, 32, 102, 111, 111, 40, 120, 32, 121, 41, 32, 120,
      43, 121, 32, 41, 59>>,
    \* extern sin(a);
    <<101, 120, 116, 101, 114, 110, 32, 115, 105, 110, 40, 97, 41,
      59>>
}

Inputs ==
    Examples
      \cup UNION {Chains(n) : n \in 0..MaxOps}
      \cup Texts(Keywords \cup Symbols, MaxWords)
      \cup {h \o t : h \in Heads, t \in Texts(Symbols, MaxTail)}

-----------------------------------------------------------------------------
(* The driver *)

Init ==
    /\ input \in Inputs
    /\ pos = 0
    /\ LastChar = 32
    /\ IdentifierStr = <<>>
    /\ NumVal = [m |-> 0, e |-> 0]
    /\ CurTok = 0
    /\ BinopPrecedence = <<>>
    /\ pc = "start"
    /\ out = NoOut
    /\ twin = NoTwin

\* main, up to the call of MainLoop
main(M) == getNextToken([M EXCEPT !.BinopPrecedence = MainTable @@ @])

Main ==
    /\ pc = "start"
    /\ \E M \in {main(State)} : Store(M)
    /\ pc' = "loop"
    /\ UNCHANGED <<out, twin>>

\* What a handler did, for the record: its parse function's node, the error
\* lines printed, the machine state when the parse function returned, and
\* the status line.
Finish(kind, h) ==
    /\ Store(h.st)
    /\ out' = [kind |-> kind, node |-> h.ret.node, errs |-> h.ret.st.errs,
               ret |-> h.ret.st, says |-> h.says]

\* case tok_eof: return;
MainLoopEof ==
    /\ pc = "loop"
    /\ CurTok = tok_eof
    /\ pc' = "done"
    /\ UNCHANGED <<input, pos, LastChar, IdentifierStr, NumVal, CurTok,
                   BinopPrecedence, out, twin>>

\* case ';': getNextToken(); break;
MainLoopSemicolon ==
    /\ pc = "loop"
    /\ CurTok = 59
    /\ \E M \in {getNextToken(State)} : Store(M)
    /\ out' = [kind |-> "semicolon"]
    /\ UNCHANGED <<pc, twin>>

\* case tok_def: HandleDefinition(); break;
MainLoopDefinition ==
    /\ pc = "loop"
    /\ CurTok = tok_def
    /\ \E h \in {HandleDefinition(State)} : Finish("definition", h)
    /\ UNCHANGED <<pc, twin>>

\* case tok_extern: HandleExtern(); break;
MainLoopExtern ==
    /\ pc = "loop"
    /\ CurTok = tok_extern
    /\ \E h \in {HandleExtern(State)} : Finish("extern", h)
    /\ UNCHANGED <<pc, twin>>

\* default: HandleTopLevelExpression(); break;
MainLoopExpression ==
    /\ pc = "loop"
    /\ CurTok \notin {tok_eof, 59, tok_def, tok_extern}
    /\ \E h \in {HandleTopLevelExpression(State)} : Finish("expression", h)
    /\ UNCHANGED <<pc, twin>>

Next ==
    \/ Main
    \/ MainLoopEof
    \/ MainLoopSemicolon
    \/ MainLoopDefinition
    \/ MainLoopExtern
    \/ MainLoopExpression

Spec == Init /\ [][Next]_vars

\* The program is one thread that runs until main returns.
FairSpec == Spec /\ WF_vars(Next)

-----------------------------------------------------------------------------
(* What the properties below speak of *)

\* The operators the language declares, with their precedences
Declared == (60 :> 10) @@ (43 :> 20) @@ (45 :> 20) @@ (42 :> 40)

\* The last MainLoop iteration ran a handler / ran one whose parse failed.
Handled == out.kind \in {"definition", "extern", "expression"}
Failed == Handled /\ IsNull(out.node)

\* The input is p1 op1 p2 ... pn: one-character primaries (a digit or a
\* letter) separated by declared operators.
IsChain(s) ==
    /\ Len(s) % 2 = 1
    /\ \A i \in 1..Len(s) :
           IF i % 2 = 1 THEN isalnum(s[i]) ELSE s[i] \in DOMAIN Declared

OpsOf(s) == {i \in 1..Len(s) : i % 2 = 0}

\* The node of a one-character primary
Primary(c) ==
    IF isdigit(c) THEN NumberExprAST([m |-> c - 48, e |-> 0])
    ELSE VariableExprAST(<<c>>)

\* The fully left-nested tree of a chain
RECURSIVE LeftNested(_)
LeftNested(s) ==
    IF Len(s) = 1 THEN Primary(s[1])
    ELSE BinaryExprAST(s[Len(s) - 1], LeftNested(SubSeq(s, 1, Len(s) - 2)),
                       Primary(s[Len(s)]))

\* The tree of a chain by precedence: split at the last operator of the
\* lowest precedence, so that higher precedence binds tighter and equal
\* precedence groups to the left.
RECURSIVE ByPrecedence(_)
ByPrecedence(s) ==
    IF Len(s) = 1 THEN Primary(s[1])
    ELSE LET low == CHOOSE i \in OpsOf(s) :
                        \A j \in OpsOf(s) :
                            \/ Declared[s[j]] > Declared[s[i]]
                            \/ Declared[s[j]] = Declared[s[i]] /\ j <= i
         IN  BinaryExprAST(s[low], ByPrecedence(SubSeq(s, 1, low - 1)),
                           ByPrecedence(SubSeq(s, low + 1, Len(s))))

TopLevel(body) == FunctionAST(PrototypeAST(AnonExpr, <<>>), body)

\* C1: a chain of primaries whose operators all have the same precedence
\* parses to the fully left-nested tree.
C1_LeftAssociative ==
    (/\ out.kind = "expression"
     /\ IsChain(input)
     /\ \A i, j \in OpsOf(input) : Declared[input[i]] = Declared[input[j]])
    => out.node = TopLevel(LeftNested(input))

\* "1+2+3" and a four-primary chain mixing '+' and '-' have been parsed.
C1_Witness ==
    /\ out.kind = "expression"
    /\ \/ input = <<49, 43, 50, 43, 51>>
       \/ input = <<97, 45, 49, 43, 49, 45, 97>>
    /\ out.node = TopLevel(LeftNested(input))

\* C2: in a chain p a q b r the operator of higher precedence binds tighter:
\* a(p, b(q, r)) if prec(b) > prec(a), else b(a(p, q), r); and every chain
\* parses to its tree by precedence.
C2_PrecedenceClimbing ==
    (out.kind = "expression" /\ IsChain(input))
    => /\ out.node = TopLevel(ByPrecedence(input))
       /\ Len(input) = 5 =>
            out.node.Body =
              IF Declared[input[4]] > Declared[input[2]]
              THEN BinaryExprAST(input[2], Primary(input[1]),
                       BinaryExprAST(input[4], Primary(input[3]),
                                     Primary(input[5])))
              ELSE BinaryExprAST(input[4],
                       BinaryExprAST(input[2], Primary(input[1]),
                                     Primary(input[3])),
                       Primary(input[5]))

\* "1+2*3" has been parsed to '+'(1, '*'(2, 3)), or "1*2+3" to
\* '+'('*'(1, 2), 3).
C2_Witness ==
    /\ out.kind = "expression"
    /\ \/ /\ input = <<49, 43, 50, 42, 51>>
          /\ out.node.Body.Op = 43 /\ out.node.Body.RHS.t = "Binary"
       \/ /\ input = <<49, 42, 50, 43, 51>>
          /\ out.node.Body.Op = 43 /\ out.node.Body.LHS.t = "Binary"

\* "foo(1," and "a(1,": a call whose argument list ends after a comma
UnterminatedArgs == {<<102, 111, 111, 40, 49, 44>>, <<97, 40, 49, 44>>}

\* C3, as claimed: parsing "foo(1," fails with the argument-list error as
\* its single error.
C3_ArgumentListError ==
    (input = <<102, 111, 111, 40, 49, 44>> /\ Handled)
    => /\ IsNull(out.node)
       /\ Len(out.errs) = 1
       /\ out.errs[1].msg = "Expected ')' or ',' in argument list"

\* C3, amended: parsing "foo(1," fails, and its single error is the
\* unexpected-token error, raised at the end-of-file token.
C3_UnexpectedTokenError ==
    (input \in UnterminatedArgs /\ Handled)
    => /\ out.kind = "expression"
       /\ IsNull(out.node)
       /\ Len(out.errs) = 1
       /\ out.errs[1].msg = "unknown token when expecting an expression"
       /\ out.errs[1].tok = tok_eof

\* "foo(1," has been parsed, and failed.
C3_Witness ==
    /\ input = <<102, 111, 111, 40, 49, 44>>
    /\ Failed
    /\ out.ret.LastChar = EOF

\* The token e.tok cannot stand where the message e.msg wants something.
Offends(e) ==
    CASE e.msg = "unknown token when expecting an expression" ->
             e.tok \notin {tok_identifier, tok_number, 40}
      [] e.msg = "expected ')'" -> e.tok # 41
      [] e.msg = "Expected ')' or ',' in argument list" -> e.tok \notin {41, 44}
      [] e.msg = "Expected function name in prototype" -> e.tok # tok_identifier
      [] e.msg = "Expected '(' in prototype" -> e.tok # 40
      [] e.msg = "Expected ')' in prototype" -> e.tok \notin {41, tok_identifier}
      [] OTHER -> FALSE

\* C4: when a parse function fails, CurTok still holds the token that
\* triggered the error message, and nothing was read past it.
C4_OffendingTokenKept ==
    Failed
    => /\ out.errs # <<>>
       /\ out.ret.CurTok = out.errs[Len(out.errs)].tok
       /\ out.ret.pos = out.errs[Len(out.errs)].pos
       /\ Offends(out.errs[Len(out.errs)])

\* A parenthesis left open has failed at the ';' found instead of ')'.
C4_Witness ==
    /\ Failed
    /\ out.errs # <<>>
    /\ out.errs[1].msg = "expected ')'"
    /\ out.ret.CurTok = 59

\* The messages of ParsePrototype
PrototypeErrors ==
    {"Expected function name in prototype", "Expected '(' in prototype",
     "Expected ')' in prototype"}

\* C5: a failed parse of a top-level construct prints exactly one error, and
\* consumes nothing after the step that printed it.
C5_FirstFailureWins ==
    Failed
    => /\ Len(out.errs) = 1
       /\ out.ret.pos = out.errs[1].pos
       /\ out.ret.CurTok = out.errs[1].tok
       /\ out.says = ""

\* A definition whose prototype failed, with a body still to read
C5_Witness ==
    /\ out.kind = "definition"
    /\ Failed
    /\ Len(out.errs) = 1
    /\ out.errs[1].msg \in PrototypeErrors
    /\ out.ret.LastChar # EOF

\* The tokens MainLoop does not hand to HandleTopLevelExpression
Boundary == {tok_eof, 59, tok_def, tok_extern}

\* C8, as claimed: once main has filled the precedence table, nothing adds,
\* removes or changes an entry of it.
C8_TableFixed ==
    pc \in {"loop", "done"} => BinopPrecedence = Declared

\* C9: MainLoop returns on every input.
C9_Terminates == <>(pc = "done")

\* MainLoop has returned after a parse that failed and was recovered from.
C9_Witness ==
    /\ pc = "done"
    /\ Failed
    /\ out.ret.LastChar # EOF

\* The tokenizer and parser state a machine state holds
Cursor(M) ==
    <<M.pos, M.LastChar, M.IdentifierStr, M.NumVal, M.CurTok,
      M.BinopPrecedence>>

\* The messages printed while a '(' of the construct was still open
UnclosedErrors ==
    {"expected ')'", "Expected ')' or ',' in argument list",
     "Expected ')' in prototype"}

\* The parse failed inside an open '(' and recovery has left current a token
\* that is no construct boundary: a token of the failed construct.
LeftOver ==
    /\ pc = "loop"
    /\ Failed
    /\ out.errs # <<>>
    /\ out.errs[1].msg \in UnclosedErrors
    /\ CurTok \notin Boundary

\* C10, as claimed: after a failed parse the rest of the failed construct
\* is discarded: a token left over from it is not parsed as a top-level
\* construct of its own.
C10_RestDiscarded ==
    [][LeftOver => IsNull(out'.node)]_vars

\* C10, amended: after a failed parse the driver calls getNextToken exactly
\* once and does nothing else: the program is one token past the state in
\* which the parse function returned.
C10_RecoveryAdvancesOneToken ==
    Failed => Cursor(State) = Cursor(getNextToken(out.ret))

\* A parse has failed and recovery has left a token of the failed construct
\* current, which the next iteration will dispatch on.
C10_Witness ==
    /\ LeftOver
    /\ pos > out.ret.pos

-----------------------------------------------------------------------------
(* Tokenizer inputs: every string over LexChars, and the same string with  *)
(* a line comment put right before a line end or the end of input.         *)

LexChars == {97, 49, 46, 43, 32, 10, 13, 35}
\* "#", "#a", "# 1" and "# comment"
Comments == {<<35>>, <<35, 97>>, <<35, 32, 49>>,
             <<35, 32, 99, 111, 109, 109, 101, 110, 116>>}

\* "1\n+2" and "1 \n+2"
LexExamples == {<<49, 10, 43, 50>>, <<49, 32, 10, 43, 50>>}

InsertAt(s, k, c) == SubSeq(s, 1, k - 1) \o c \o SubSeq(s, k, Len(s))

CommentPoints(s) ==
    {k \in 1..(Len(s) + 1) : k = Len(s) + 1 \/ s[k] \in {10, 13}}

LexInit ==
    /\ input \in LexExamples \cup SeqsUpTo(LexChars, MaxLexLen)
    /\ \E k \in CommentPoints(input), c \in Comments :
           twin = StartOn(InsertAt(input, k, c))
    /\ pos = 0
    /\ LastChar = 32
    /\ IdentifierStr = <<>>
    /\ NumVal = [m |-> 0, e |-> 0]
    /\ CurTok = 0
    /\ BinopPrecedence = <<>>
    /\ pc = "lex"
    /\ out = NoOut

\* One call of getNextToken, on the input and on its commented twin.
LexGetNextToken ==
    /\ pc = "lex"
    /\ \E M \in {getNextToken(State)} : Store(M)
    /\ twin' = getNextToken(twin)
    /\ UNCHANGED <<pc, out>>

LexNext == LexGetNextToken

LexSpec == LexInit /\ [][LexNext]_vars

\* C6: once the lookahead character is EOF, a call of gettok returns
\* tok_eof, reads no character and leaves LastChar, IdentifierStr and NumVal
\* as they are.
C6_EofIdempotent ==
    [][LastChar = EOF
         => /\ CurTok' = tok_eof
            /\ pos' = pos
            /\ LastChar' = EOF
            /\ IdentifierStr' = IdentifierStr
            /\ NumVal' = NumVal]_vars

\* The input ended inside a comment, and gettok has returned tok_eof.
C6_Witness ==
    /\ pc = "lex"
    /\ LastChar = EOF
    /\ CurTok = tok_eof
    /\ Len(input) >= 2
    /\ input[Len(input) - 1] = 35
    /\ pos = Len(input) + 1

\* C7: the commented input yields the same tokens, with the same
\* identifier text and number value, call for call.
C7_CommentTransparent ==
    pc = "lex"
       => /\ CurTok = twin.CurTok
          /\ IdentifierStr = twin.IdentifierStr
          /\ NumVal = twin.NumVal

\* "1\n+2" and "1# comment\n+2": both tokenizers have skipped to the '+'.
C7_Witness ==
    /\ pc = "lex"
    /\ input = <<49, 10, 43, 50>>
    /\ twin.in = <<49, 35, 32, 99, 111, 109, 109, 101, 110, 116, 10, 43, 50>>
    /\ CurTok = 43
    /\ twin.CurTok = 43

====
